---------------------------- MODULE Spec2Model ----------------------------
(***************************************************************************)
(* A model of backend/accelerator/src/lib.rs: parse_scalar_field and       *)
(* parse_vector_field, the two field-averaging scans over an OpenFOAM      *)
(* field file.                                                             *)
(*                                                                         *)
(* A file is a sequence of bytes, each byte a one-character string.        *)
(* Offsets are the code's 0-based offsets; At(buf, i) is buf[i].           *)
(* An f64 is modelled by the exact rational <<n, d>> (d > 0, lowest        *)
(* terms): the files of the model hold short decimal tokens whose sums     *)
(* stay far inside f64's exact range, and x / n is the exact quotient.     *)
(***************************************************************************)
EXTENDS Integers, Sequences, FiniteSets, TLC

(***************************************************************************)
(* Bounds of the model.                                                    *)
(***************************************************************************)
\* the longest tail of free items appended to a fixture when files are drawn
MaxItems == 2
\* the number of calls each thread makes in the concurrent specification
MaxCalls == 2

(***************************************************************************)
(* Bytes and the byte classes the code distinguishes.                      *)
(***************************************************************************)
At(buf, i) == buf[i + 1]

\* buf[lo..hi) as the code's half-open slice
Slice(buf, lo, hi) == SubSeq(buf, lo + 1, hi)

MinOf(S) == CHOOSE x \in S : \A y \in S : x <= y

MaxOf(S) == CHOOSE x \in S : \A y \in S : y <= x

Digits == {"0", "1", "2", "3", "4", "5", "6", "7", "8", "9"}

DigitVal(b) ==
    CASE b = "0" -> 0 [] b = "1" -> 1 [] b = "2" -> 2 [] b = "3" -> 3
      [] b = "4" -> 4 [] b = "5" -> 5 [] b = "6" -> 6 [] b = "7" -> 7
      [] b = "8" -> 8 [] b = "9" -> 9

\* the closure of list_content.split(..) in parse_scalar_field
IsScalarSep(b) == b \in {" ", "\n", "\t", "\r"}

\* the closure of list_content.split(..) in parse_vector_field
IsVectorSep(b) == b \in {" ", "\n", "\t", "\r", "(", ")"}

\* chunk[0].is_ascii_digit() || chunk[0] == b'-' || b'+' || b'.'
LooksNumeric(chunk) ==
    At(chunk, 0) \in Digits \/ At(chunk, 0) = "-" \/ At(chunk, 0) = "+"
        \/ At(chunk, 0) = "."

\* \s of the regex crate and char::is_whitespace, on the bytes of the model
IsSpace(b) == b \in {" ", "\n", "\t", "\r"}

(***************************************************************************)
(* f64 values as exact rationals.                                          *)
(***************************************************************************)
Abs(n) == IF n < 0 THEN -n ELSE n

RECURSIVE Gcd(_, _)
Gcd(a, b) == IF b = 0 THEN a ELSE Gcd(b, a % b)

Norm(n, d) ==
    LET g == Gcd(Abs(n), Abs(d))
        s == IF d < 0 THEN -1 ELSE 1
    IN  <<(s * n) \div g, (s * d) \div g>>

Zero == <<0, 1>>

FAdd(a, b) == Norm(a[1] * b[2] + b[1] * a[2], a[2] * b[2])

\* sum / count as f64
FDivInt(a, n) == Norm(a[1], a[2] * n)

RECURSIVE Pow10(_)
Pow10(n) == IF n = 0 THEN 1 ELSE 10 * Pow10(n - 1)

RECURSIVE DecVal(_)
DecVal(ds) ==
    IF Len(ds) = 0 THEN 0
    ELSE 10 * DecVal(SubSeq(ds, 1, Len(ds) - 1)) + DigitVal(ds[Len(ds)])

AllDigits(ds) == \A k \in 1..Len(ds) : ds[k] \in Digits

NoParse == <<"err">>

(***************************************************************************)
(* str::parse::<f64>: [sign] digits [. digits] [e [sign] digits], with at  *)
(* least one mantissa digit and, after an e, at least one exponent digit.  *)
(* The spellings inf, infinity and nan, which parse too, are formed by no  *)
(* token of the files drawn here.                                          *)
(***************************************************************************)
ParseF64(s) ==
    LET signed == Len(s) > 0 /\ s[1] \in {"+", "-"}
        neg    == Len(s) > 0 /\ s[1] = "-"
        body   == IF signed THEN SubSeq(s, 2, Len(s)) ELSE s
        es     == {k \in 1..Len(body) : body[k] \in {"e", "E"}}
        mant   == IF es = {} THEN body ELSE SubSeq(body, 1, MinOf(es) - 1)
        expo   == IF es = {} THEN <<>>
                  ELSE SubSeq(body, MinOf(es) + 1, Len(body))
        esign  == Len(expo) > 0 /\ expo[1] \in {"+", "-"}
        eneg   == Len(expo) > 0 /\ expo[1] = "-"
        edig   == IF esign THEN SubSeq(expo, 2, Len(expo)) ELSE expo
        dots   == {k \in 1..Len(mant) : mant[k] = "."}
        ipart  == IF dots = {} THEN mant ELSE SubSeq(mant, 1, MinOf(dots) - 1)
        fpart  == IF dots = {} THEN <<>>
                  ELSE SubSeq(mant, MinOf(dots) + 1, Len(mant))
        ok     == /\ Cardinality(dots) <= 1
                  /\ AllDigits(ipart) /\ AllDigits(fpart)
                  /\ Len(ipart) + Len(fpart) >= 1
                  /\ (es # {} => Len(edig) >= 1 /\ AllDigits(edig))
        m      == DecVal(ipart \o fpart)
        e      == IF es = {} THEN 0 ELSE DecVal(edig)
        num    == IF eneg THEN m ELSE m * Pow10(e)
        den    == IF eneg THEN Pow10(Len(fpart)) * Pow10(e) ELSE Pow10(Len(fpart))
    IN  IF ~ok THEN NoParse
        ELSE Norm(IF neg THEN -num ELSE num, den)

(***************************************************************************)
(* The three patterns. A compiled Regex is modelled by its pattern, and a  *)
(* OnceLock<Regex> cell by "uninit" or the pattern it was initialised      *)
(* with.                                                                   *)
(***************************************************************************)
KwInternalField == <<"i", "n", "t", "e", "r", "n", "a", "l", "F", "i", "e", "l", "d">>

KwNonuniform == <<"n", "o", "n", "u", "n", "i", "f", "o", "r", "m">>

KwUniform == <<"u", "n", "i", "f", "o", "r", "m">>

KwBoundaryField == <<"b", "o", "u", "n", "d", "a", "r", "y", "F", "i", "e", "l", "d">>

\* r"internalField", r"nonuniform", the uniform pattern, r"boundaryField"
PatInternalField == "internalField"

PatNonuniform == "nonuniform"

PatUniform == "uniform\\s+([^\\s;]+|[^\\s;]+\\s+[^\\s;]+\\s+[^\\s;]+|\\([^\\)]+\\));"

PatBoundaryField == "boundaryField"

Uninit == "uninit"

Cells == {"RE_INTERNAL_FIELD", "RE_NONUNIFORM", "RE_UNIFORM"}

LitOf(re) ==
    CASE re = PatInternalField -> KwInternalField
      [] re = PatNonuniform -> KwNonuniform
      [] re = PatBoundaryField -> KwBoundaryField

NoMatch == <<-1, -1>>

MatchesAt(buf, pat, i) == \A j \in 1..Len(pat) : buf[i + j] = pat[j]

\* the leftmost occurrence of the literal pat in buf[lo..hi): <<start, end>>
FindLit(buf, pat, lo, hi) ==
    LET S == {i \in lo..(hi - Len(pat)) : MatchesAt(buf, pat, i)}
    IN  IF S = {} THEN NoMatch ELSE <<MinOf(S), MinOf(S) + Len(pat)>>

\* the end of the run of \s bytes that starts at q
SpaceEnd(buf, q, hi) ==
    LET S == {k \in q..(hi - 1) : ~IsSpace(At(buf, k))}
    IN  IF S = {} THEN hi ELSE MinOf(S)

\* the end of the run of [^\s;] bytes that starts at q
TokenEnd(buf, q, hi) ==
    LET S == {k \in q..(hi - 1) : IsSpace(At(buf, k)) \/ At(buf, k) = ";"}
    IN  IF S = {} THEN hi ELSE MinOf(S)

(***************************************************************************)
(* The uniform pattern tried at one occurrence p of `uniform`: \s+ takes   *)
(* the whole run of spaces (every alternative starts with a non-space),    *)
(* then the alternatives are tried in order: one token, three tokens, a    *)
(* parenthesized group; each must be followed at once by `;`.  The result  *)
(* is <<start, end>> of group 1, or NoMatch.                               *)
(***************************************************************************)
UniformAt(buf, p, hi) ==
    LET q  == SpaceEnd(buf, p + Len(KwUniform), hi)
        r1 == TokenEnd(buf, q, hi)
        w1 == SpaceEnd(buf, r1, hi)
        r2 == TokenEnd(buf, w1, hi)
        w2 == SpaceEnd(buf, r2, hi)
        r3 == TokenEnd(buf, w2, hi)
        cs == {k \in (q + 1)..(hi - 1) : At(buf, k) = ")"}
        c  == IF cs = {} THEN hi ELSE MinOf(cs)
        semi(k) == k < hi /\ At(buf, k) = ";"
    IN  IF ~(q > p + Len(KwUniform) /\ q < hi) THEN NoMatch
        ELSE IF r1 > q /\ semi(r1) THEN <<q, r1>>
        ELSE IF r1 > q /\ w1 > r1 /\ r2 > w1 /\ w2 > r2 /\ r3 > w2 /\ semi(r3)
             THEN <<q, r3>>
        ELSE IF At(buf, q) = "(" /\ c > q + 1 /\ semi(c + 1) THEN <<q, c + 1>>
        ELSE NoMatch

\* the leftmost occurrence of `uniform` in buf[lo..hi) at which the pattern matches
UniformStart(buf, lo, hi) ==
    LET S == {p \in lo..(hi - Len(KwUniform)) :
                 MatchesAt(buf, KwUniform, p) /\ UniformAt(buf, p, hi) # NoMatch}
    IN  IF S = {} THEN -1 ELSE MinOf(S)

\* Regex::find on the slice buf[lo..hi), in offsets of buf
ReFind(re, buf, lo, hi) ==
    IF re = PatUniform
    THEN LET p == UniformStart(buf, lo, hi)
         IN  IF p = -1 THEN NoMatch ELSE <<p, UniformAt(buf, p, hi)[2] + 1>>
    ELSE FindLit(buf, LitOf(re), lo, hi)

\* Regex::captures(..).get(1) on the slice buf[lo..hi): a literal has no group 1
ReGroup1(re, buf, lo, hi) ==
    IF re = PatUniform
    THEN LET p == UniformStart(buf, lo, hi)
         IN  IF p = -1 THEN NoMatch ELSE UniformAt(buf, p, hi)
    ELSE NoMatch

\* OnceLock::get_or_init
get_or_init(cell, init) == IF cell = Uninit THEN init ELSE cell

\* the cell and the pattern of each getter
get_re_internal_field(o) ==
    [o EXCEPT !["RE_INTERNAL_FIELD"] = get_or_init(@, PatInternalField)]

get_re_nonuniform(o) ==
    [o EXCEPT !["RE_NONUNIFORM"] = get_or_init(@, PatNonuniform)]

\* get_re_uniform calling get_or_init on RE_NONUNIFORM, the wrong static
get_re_uniform_wrong_static(o) ==
    [o EXCEPT !["RE_UNIFORM"] = get_or_init(o["RE_NONUNIFORM"], PatUniform)]

get_re_uniform(o) ==
    [o EXCEPT !["RE_UNIFORM"] = get_or_init(@, PatUniform)]

(***************************************************************************)
(* The scan, one operator per stretch of parse_scalar_field and            *)
(* parse_vector_field (the two functions share it up to the accumulation). *)
(***************************************************************************)
\* the lookahead bound of search_window
Window == 500

Min2(a, b) == IF a <= b THEN a ELSE b

\* re_int.find(&mmap): mat.end(), or -1
AnchorEnd(re, buf) == ReFind(re, buf, 0, Len(buf))[2]

\* WindowEnd without the bound: the window runs to the end of the buffer
WindowEndUnbounded(start_search, len) == len

\* &mmap[start_search..min(start_search + 500, mmap.len())]: the slice's end
WindowEnd(start_search, len) == Min2(start_search + Window, len)

\* re_non.find(search_window): non_mat.end(), an offset of the window, or -1
NonuniformEnd(re, buf, start_search, win_end) ==
    LET m == ReFind(re, buf, start_search, win_end)
    IN  IF m = NoMatch THEN -1 ELSE m[2] - start_search

\* let offset = start_search + non_mat.end()
OffsetOf(start_search, non_end) == start_search + non_end

\* for i in offset..mmap.len() { if mmap[i] == b'(' ... break }
ParenStart(buf, offset) ==
    LET S == {i \in offset..(Len(buf) - 1) : At(buf, i) = "("}
    IN  IF S = {} THEN -1 ELSE MinOf(S)

\* EndLimit with find(&mmap) in place of find_at(&mmap, start)
EndLimitFromBufferStart(buf, start) ==
    LET m == FindLit(buf, KwBoundaryField, 0, Len(buf))
    IN  IF m = NoMatch THEN Len(buf) ELSE m[1]

\* boundary_re.find_at(&mmap, start): b_mat.start(), else mmap.len()
EndLimit(buf, start) ==
    LET m == FindLit(buf, KwBoundaryField, start, Len(buf))
    IN  IF m = NoMatch THEN Len(buf) ELSE m[1]

\* for i in (start..end_limit).rev() { if mmap[i] == b')' ... break }
ParenEnd(buf, start, end_limit) ==
    LET S == {i \in start..(end_limit - 1) : At(buf, i) = ")"}
    IN  IF S = {} THEN -1 ELSE MaxOf(S)

IsSep(m, b) == IF m = "scalar" THEN IsScalarSep(b) ELSE IsVectorSep(b)

\* where the chunk that starts at pos ends: the next separator, or the region's end
ChunkEnd(m, buf, pos, end) ==
    LET S == {k \in pos..(end - 1) : IsSep(m, At(buf, k))}
    IN  IF S = {} THEN end ELSE MinOf(S)

\* the locals of a call before the scan. count is an i32 in the code; the files
\* drawn here hold far fewer than 2^31 tokens, so it is an unbounded integer.
NoLocals ==
    [start_search |-> -1, win_end |-> -1, offset |-> -1, start |-> -1,
     end_limit |-> -1, end |-> -1, pos |-> -1, val_idx |-> 0, count |-> 0,
     sum |-> Zero, sum_x |-> Zero, sum_y |-> Zero, sum_z |-> Zero]

\* ScalarChunk with count += 1 moved out of the `if let Ok(val)`
ScalarChunkCountsUnparsed(l, chunk) ==
    IF Len(chunk) # 0 /\ LooksNumeric(chunk)
    THEN IF ParseF64(chunk) # NoParse
         THEN [l EXCEPT !.sum = FAdd(@, ParseF64(chunk)), !.count = @ + 1]
         ELSE [l EXCEPT !.count = @ + 1]
    ELSE l

\* the body of the scalar loop for one chunk
ScalarChunk(l, chunk) ==
    IF Len(chunk) # 0 /\ LooksNumeric(chunk) /\ ParseF64(chunk) # NoParse
    THEN [l EXCEPT !.sum = FAdd(@, ParseF64(chunk)), !.count = @ + 1]
    ELSE l

\* VectorChunk with val_idx advanced for every chunk that passes the first-byte test
VectorChunkAdvancesUnparsed(l, chunk) ==
    IF Len(chunk) # 0 /\ LooksNumeric(chunk)
    THEN IF ParseF64(chunk) # NoParse
         THEN LET val == ParseF64(chunk)
                  m   == CASE l.val_idx = 0 -> [l EXCEPT !.sum_x = FAdd(@, val)]
                           [] l.val_idx = 1 -> [l EXCEPT !.sum_y = FAdd(@, val)]
                           [] l.val_idx = 2 -> [l EXCEPT !.sum_z = FAdd(@, val),
                                                         !.count = @ + 1]
              IN  [m EXCEPT !.val_idx = (@ + 1) % 3]
         ELSE [l EXCEPT !.val_idx = (@ + 1) % 3]
    ELSE l

\* the body of the vector loop for one chunk
VectorChunk(l, chunk) ==
    IF Len(chunk) # 0 /\ LooksNumeric(chunk) /\ ParseF64(chunk) # NoParse
    THEN LET val == ParseF64(chunk)
             m   == CASE l.val_idx = 0 -> [l EXCEPT !.sum_x = FAdd(@, val)]
                      [] l.val_idx = 1 -> [l EXCEPT !.sum_y = FAdd(@, val)]
                      [] l.val_idx = 2 -> [l EXCEPT !.sum_z = FAdd(@, val),
                                                    !.count = @ + 1]
         IN  [m EXCEPT !.val_idx = (@ + 1) % 3]
    ELSE l

\* one iteration of `for chunk in list_content.split(..)`; pos moves past the separator
ChunkStep(m, buf, l) ==
    LET ce    == ChunkEnd(m, buf, l.pos, l.end)
        chunk == Slice(buf, l.pos, ce)
        n     == IF m = "scalar" THEN ScalarChunk(l, chunk) ELSE VectorChunk(l, chunk)
    IN  [n EXCEPT !.pos = ce + 1]

\* the results: Ok(None), Ok(Some(v)), Ok((x, y, z)) and Err(e)
None == [tag |-> "None", val |-> <<>>]

Some(v) == [tag |-> "Some", val |-> <<v>>]

Triple(x, y, z) == [tag |-> "Ok", val |-> <<x, y, z>>]

Err == [tag |-> "Err", val |-> <<>>]

\* the fall-through result: Ok(None), Ok((0.0, 0.0, 0.0))
Absent(m) == IF m = "scalar" THEN None ELSE Triple(Zero, Zero, Zero)

\* if count > 0 { return .. } after the loop, else the fall-through
Average(m, l) ==
    IF l.count > 0
    THEN IF m = "scalar" THEN Some(FDivInt(l.sum, l.count))
         ELSE Triple(FDivInt(l.sum_x, l.count), FDivInt(l.sum_y, l.count),
                     FDivInt(l.sum_z, l.count))
    ELSE Absent(m)

\* str::split_whitespace on the capture with "(" and ")" removed
RECURSIVE SplitWhitespace(_)
SplitWhitespace(s) ==
    LET q == SpaceEnd(s, 0, Len(s))
        r == LET S == {k \in q..(Len(s) - 1) : IsSpace(At(s, k))}
             IN  IF S = {} THEN Len(s) ELSE MinOf(S)
    IN  IF q = Len(s) THEN <<>>
        ELSE <<Slice(s, q, r)>> \o SplitWhitespace(Slice(s, r, Len(s)))

\* s.replace("(", "").replace(")", "")
RemoveParens(s) == SelectSeq(s, LAMBDA b : b # "(" /\ b # ")")

\* parse::<f64>().unwrap_or(0.0)
ParseOrZero(s) == IF ParseF64(s) = NoParse THEN Zero ELSE ParseF64(s)

\* the uniform branch of parse_scalar_field, given group 1
ScalarUniform(buf, cap) ==
    IF cap # NoMatch /\ ParseF64(Slice(buf, cap[1], cap[2])) # NoParse
    THEN Some(ParseF64(Slice(buf, cap[1], cap[2])))
    ELSE None

\* VectorUniform with `?` in place of unwrap_or(0.0): one bad part fails them all
VectorUniformAllOrNothing(buf, cap) ==
    LET parts == SplitWhitespace(RemoveParens(Slice(buf, cap[1], cap[2])))
    IN  IF cap # NoMatch /\ Len(parts) = 3
           /\ \A k \in 1..3 : ParseF64(parts[k]) # NoParse
        THEN Triple(ParseF64(parts[1]), ParseF64(parts[2]), ParseF64(parts[3]))
        ELSE Triple(Zero, Zero, Zero)

\* the uniform branch of parse_vector_field, given group 1
VectorUniform(buf, cap) ==
    LET parts == SplitWhitespace(RemoveParens(Slice(buf, cap[1], cap[2])))
    IN  IF cap # NoMatch /\ Len(parts) = 3
        THEN Triple(ParseOrZero(parts[1]), ParseOrZero(parts[2]), ParseOrZero(parts[3]))
        ELSE Triple(Zero, Zero, Zero)

\* Path::exists: false for a missing path and for one whose metadata cannot be read
PathExists(here, flt) == here /\ flt # "stat"

\* the whole loop over the chunks of list_content
RECURSIVE AllChunks(_, _, _)
AllChunks(m, buf, l) ==
    IF l.pos > l.end THEN l ELSE AllChunks(m, buf, ChunkStep(m, buf, l))

\* the nonuniform branch, from offset on, run to its return
NonuniformBranch(m, buf, offset) ==
    LET start     == ParenStart(buf, offset)
        end_limit == EndLimit(buf, start)
        end       == ParenEnd(buf, start, end_limit)
    IN  IF start = -1 \/ end = -1 THEN Absent(m)
        ELSE Average(m, AllChunks(m, buf, [NoLocals EXCEPT !.end = end, !.pos = start + 1]))

\* parse_scalar_field (m = "scalar") or parse_vector_field (m = "vector") run
\* from entry to return with no other thread, on the path as it is
SingleCall(m, here, flt, buf) ==
    IF ~PathExists(here, flt) THEN Absent(m)
    ELSE IF flt \in {"open", "size"} THEN Err
    ELSE IF Len(buf) = 0 THEN Absent(m)
    ELSE IF flt = "map" THEN Err
    ELSE LET e  == AnchorEnd(PatInternalField, buf)
             w  == WindowEnd(e, Len(buf))
             ne == NonuniformEnd(PatNonuniform, buf, e, w)
         IN  IF e = -1 THEN Absent(m)
             ELSE IF ne # -1 THEN NonuniformBranch(m, buf, OffsetOf(e, ne))
             ELSE IF m = "scalar" THEN ScalarUniform(buf, ReGroup1(PatUniform, buf, e, w))
             ELSE VectorUniform(buf, ReGroup1(PatUniform, buf, e, w))

(***************************************************************************)
(* The files the calls are made on: a fixture followed by at most MaxItems *)
(* free items.                                                             *)
(***************************************************************************)
SP == <<" ">>

NL == <<"\n">>

Pad(n) == [k \in 1..n |-> " "]

Anchor == KwInternalField \o SP

Items == {<<"1">>, <<" ">>, <<"x">>, <<"-">>, <<"(">>, <<")">>, <<";">>, KwBoundaryField}

RECURSIVE TailsOf(_)
TailsOf(n) ==
    IF n = 0 THEN {<<>>}
    ELSE LET P == TailsOf(n - 1) IN P \cup {t \o i : t \in P, i \in Items}

Fixtures ==
    { <<>>,
      Anchor \o KwNonuniform \o SP,
      \* internalField nonuniform, the list 1 2 3 4 on lines of its own, not yet closed
      Anchor \o KwNonuniform \o NL \o <<"(", "\n", "1", "\n", "2", "\r", "\n", "3", "\t", "4">>,
      \* internalField nonuniform ((1 0 0)(3 2 0), the outer list not yet closed
      Anchor \o KwNonuniform \o SP
          \o <<"(", "(", "1", " ", "0", " ", "0", ")", "(", "3", " ", "2", " ", "0", ")">>,
      \* the same, followed by the x and y of a third triple
      Anchor \o KwNonuniform \o SP
          \o <<"(", "(", "1", " ", "0", " ", "0", ")", "(", "3", " ", "2", " ", "0", ")",
               "(", "1", " ", "1">>,
      \* tokens that pass the first-byte test and parse, pass and do not parse, do not pass
      Anchor \o KwNonuniform \o SP
          \o <<"(", "1", ".", "5", " ", "2", "e", "1", " ", "+", "3", " ", ".", "5", " ",
               "1", "e", " ", "1", ".", "2", ".", "3", " ", "x", "1">>,
      Anchor \o KwNonuniform \o SP \o KwBoundaryField \o SP \o <<"(", "3">>,
      Anchor \o KwUniform \o SP,
      Anchor \o KwUniform \o SP \o <<"7", ".", "5", ";">>,
      Anchor \o KwUniform \o SP \o <<"(", "1", " ", "2", " ", "3", ")", ";">>,
      Anchor \o KwUniform \o SP \o <<"(", "1", " ", "x", " ">>,
      Anchor \o KwUniform \o SP \o <<"1", " ", "2", " ">>,
      \* a uniform internalField followed by a boundary patch that holds a nonuniform list
      Anchor \o KwUniform \o SP \o <<"2", ";", "\n">> \o KwBoundaryField \o SP
          \o KwNonuniform \o SP \o <<"(", "1", " ", "1">>,
      KwUniform \o SP \o <<"3", ";">> \o SP \o Anchor,
      \* the keyword ends at the window's last byte, and one byte after it
      KwInternalField \o Pad(Window - Len(KwNonuniform)) \o KwNonuniform \o <<"(", "1", " ", "2", ")">>,
      KwInternalField \o Pad(Window - Len(KwNonuniform) + 1) \o KwNonuniform \o <<"(", "1", " ", "2", ")">>,
      KwInternalField \o Pad(Window - Len(KwUniform) - 3) \o KwUniform \o <<" ", "3", ";">>,
      KwInternalField \o Pad(Window - Len(KwUniform) - 2) \o KwUniform \o <<" ", "3", ";">>,
      \* a second internalField, with its keyword, beyond the window of the first
      KwInternalField \o Pad(Window) \o Anchor \o KwUniform \o <<" ", "3", ";">> }

Files == {f \o t : f \in Fixtures, t \in TailsOf(MaxItems)}

\* the files of the concurrent specification
ConcFiles ==
    { <<>>,
      Anchor \o KwNonuniform \o SP \o <<"(", "1", " ", "2", ")">>,
      Anchor \o KwNonuniform \o SP \o <<"(", "(", "1", " ", "2", " ", "3", ")", ")">>,
      Anchor \o KwUniform \o SP \o <<"7", ".", "5", ";">>,
      Anchor \o KwUniform \o SP \o <<"(", "1", " ", "2", " ", "3", ")", ";">>,
      Anchor \o <<"x">> }

Modes == {"scalar", "vector"}

\* the system call that fails on the path: none, the stat of Path::exists,
\* File::open, File::metadata, or the mmap
Faults == {"none", "stat", "open", "size", "map"}

Threads == {"t1", "t2"}

(***************************************************************************)
(* State.                                                                  *)
(***************************************************************************)
VARIABLES
    file,       \* the bytes of the file at the path
    present,    \* whether the path names a file now
    fault,      \* the failing system call of the path
    removed,    \* whether the file was unlinked since the start
    once,       \* the three OnceLock<Regex> statics
    pc,         \* each thread's position in its call
    mode,       \* which of the two functions the thread is in
    loc,        \* the call's locals
    result,     \* the value the call returned
    budget,     \* calls the thread may still make
    searched,   \* whether the call has run the anchor search
    atCall      \* present and fault when the call started

vars == <<file, present, fault, removed, once, pc, mode, loc, result, budget,
          searched, atCall>>

env == <<file, fault>>

Pending == [tag |-> "Pending", val |-> <<>>]

InitCalls ==
    /\ removed = FALSE
    /\ once = [c \in Cells |-> Uninit]
    /\ pc = [t \in Threads |-> "idle"]
    /\ mode = [t \in Threads |-> "scalar"]
    /\ loc = [t \in Threads |-> NoLocals]
    /\ result = [t \in Threads |-> Pending]
    /\ searched = [t \in Threads |-> FALSE]
    /\ atCall = [t \in Threads |-> <<FALSE, "none">>]

\* one call, on a file of Files or on a missing path
Init ==
    /\ \/ /\ present = TRUE
          /\ file \in Files
          /\ fault \in (IF file \in Fixtures THEN Faults ELSE {"none"})
       \/ /\ present = FALSE
          /\ file = <<>>
          /\ fault = "none"
    /\ budget = [t \in Threads |-> IF t = "t1" THEN 1 ELSE 0]
    /\ InitCalls

\* two threads, MaxCalls calls each, on the same path
InitConc ==
    /\ present \in BOOLEAN
    /\ file \in (IF present THEN ConcFiles ELSE {<<>>})
    /\ fault \in (IF present THEN {"none", "open"} ELSE {"none"})
    /\ budget = [t \in Threads |-> MaxCalls]
    /\ InitCalls

Return(t, r) ==
    /\ pc' = [pc EXCEPT ![t] = "done"]
    /\ result' = [result EXCEPT ![t] = r]

Goto(t, label) ==
    /\ pc' = [pc EXCEPT ![t] = label]
    /\ UNCHANGED result

(***************************************************************************)
(* The steps of a call.                                                    *)
(***************************************************************************)
\* the Python caller enters parse_scalar_field or parse_vector_field
Call(t) ==
    /\ pc[t] = "idle"
    /\ budget[t] > 0
    /\ \E m \in Modes : mode' = [mode EXCEPT ![t] = m]
    /\ budget' = [budget EXCEPT ![t] = @ - 1]
    /\ pc' = [pc EXCEPT ![t] = "exists"]
    /\ result' = [result EXCEPT ![t] = Pending]
    /\ loc' = [loc EXCEPT ![t] = NoLocals]
    /\ searched' = [searched EXCEPT ![t] = FALSE]
    /\ atCall' = [atCall EXCEPT ![t] = <<present, fault>>]
    /\ UNCHANGED <<env, present, removed, once>>

\* if !path.exists() { return Ok(None) }
CheckExists(t) ==
    /\ pc[t] = "exists"
    /\ IF ~PathExists(present, fault) THEN Return(t, Absent(mode[t])) ELSE Goto(t, "open")
    /\ UNCHANGED <<env, present, removed, once, mode, loc, budget, searched, atCall>>

\* let file = File::open(path)?
OpenFile(t) ==
    /\ pc[t] = "open"
    /\ IF ~present \/ fault = "open" THEN Return(t, Err) ELSE Goto(t, "metadata")
    /\ UNCHANGED <<env, present, removed, once, mode, loc, budget, searched, atCall>>

\* CheckEmpty without the test of the length
CheckEmptySkipped(t) ==
    /\ pc[t] = "metadata"
    /\ IF fault = "size" THEN Return(t, Err) ELSE Goto(t, "mmap")
    /\ UNCHANGED <<env, present, removed, once, mode, loc, budget, searched, atCall>>

\* if file.metadata()?.len() == 0 { return Ok(None) }
CheckEmpty(t) ==
    /\ pc[t] = "metadata"
    /\ IF fault = "size" THEN Return(t, Err)
       ELSE IF Len(file) = 0 THEN Return(t, Absent(mode[t]))
       ELSE Goto(t, "mmap")
    /\ UNCHANGED <<env, present, removed, once, mode, loc, budget, searched, atCall>>

\* let mmap = unsafe { MmapOptions::new().map(&file)? }
MapFile(t) ==
    /\ pc[t] = "mmap"
    /\ IF fault = "map" THEN Return(t, Err) ELSE Goto(t, "anchor")
    /\ UNCHANGED <<env, present, removed, once, mode, loc, budget, searched, atCall>>

\* get_re_internal_field().find(&mmap), and the window
FindAnchor(t) ==
    /\ pc[t] = "anchor"
    /\ once' = get_re_internal_field(once)
    /\ searched' = [searched EXCEPT ![t] = TRUE]
    /\ LET e == AnchorEnd(once'["RE_INTERNAL_FIELD"], file)
       IN  IF e = -1
           THEN Return(t, Absent(mode[t])) /\ UNCHANGED loc
           ELSE /\ Goto(t, "classify")
                /\ loc' = [loc EXCEPT ![t].start_search = e,
                                      ![t].win_end = WindowEnd(e, Len(file))]
    /\ UNCHANGED <<env, present, removed, mode, budget, atCall>>

\* get_re_nonuniform().find(search_window), and offset
Classify(t) ==
    /\ pc[t] = "classify"
    /\ once' = get_re_nonuniform(once)
    /\ LET ne == NonuniformEnd(once'["RE_NONUNIFORM"], file, loc[t].start_search,
                               loc[t].win_end)
       IN  IF ne = -1
           THEN Goto(t, "uniform") /\ UNCHANGED loc
           ELSE /\ Goto(t, "region")
                /\ loc' = [loc EXCEPT ![t].offset = OffsetOf(loc[t].start_search, ne)]
    /\ UNCHANGED <<env, present, removed, mode, budget, searched, atCall>>

\* the three searches that delimit list_content
FindRegion(t) ==
    /\ pc[t] = "region"
    /\ LET start     == ParenStart(file, loc[t].offset)
           end_limit == EndLimit(file, start)
           end       == ParenEnd(file, start, end_limit)
       IN  IF start = -1
           THEN Return(t, Absent(mode[t])) /\ UNCHANGED loc
           ELSE IF end = -1
           THEN /\ Return(t, Absent(mode[t]))
                /\ loc' = [loc EXCEPT ![t].start = start, ![t].end_limit = end_limit]
           ELSE /\ Goto(t, "accumulate")
                /\ loc' = [loc EXCEPT ![t].start = start, ![t].end_limit = end_limit,
                                      ![t].end = end, ![t].pos = start + 1]
    /\ UNCHANGED <<env, present, removed, once, mode, budget, searched, atCall>>

\* one iteration of the loop over the chunks of list_content
Accumulate(t) ==
    /\ pc[t] = "accumulate"
    /\ loc[t].pos <= loc[t].end
    /\ loc' = [loc EXCEPT ![t] = ChunkStep(mode[t], file, loc[t])]
    /\ UNCHANGED <<env, present, removed, once, pc, mode, result, budget, searched, atCall>>

\* after the loop: the average, or the fall-through
Finish(t) ==
    /\ pc[t] = "accumulate"
    /\ loc[t].pos > loc[t].end
    /\ Return(t, Average(mode[t], loc[t]))
    /\ UNCHANGED <<env, present, removed, once, mode, loc, budget, searched, atCall>>

\* get_re_uniform().captures(search_window), and the value of group 1
Uniform(t) ==
    /\ pc[t] = "uniform"
    /\ once' = get_re_uniform(once)
    /\ LET cap == ReGroup1(once'["RE_UNIFORM"], file, loc[t].start_search, loc[t].win_end)
       IN  Return(t, IF mode[t] = "scalar" THEN ScalarUniform(file, cap)
                     ELSE VectorUniform(file, cap))
    /\ UNCHANGED <<env, present, removed, mode, loc, budget, searched, atCall>>

\* the value reaches the caller
Leave(t) ==
    /\ pc[t] = "done"
    /\ pc' = [pc EXCEPT ![t] = "idle"]
    /\ UNCHANGED <<env, present, removed, once, mode, loc, result, budget, searched, atCall>>

\* another process unlinks the file; an open handle and a mapping stay valid.
\* Only a thread that has yet to stat or open the path can observe it.
Remove ==
    /\ present
    /\ \E t \in Threads : pc[t] \in {"exists", "open"} \/ (pc[t] = "idle" /\ budget[t] > 0)
    /\ present' = FALSE
    /\ removed' = TRUE
    /\ UNCHANGED <<env, once, pc, mode, loc, result, budget, searched, atCall>>

Next ==
    \/ \E t \in Threads :
          \/ Call(t) \/ CheckExists(t) \/ OpenFile(t) \/ CheckEmpty(t) \/ MapFile(t)
          \/ FindAnchor(t) \/ Classify(t) \/ FindRegion(t) \/ Accumulate(t)
          \/ Finish(t) \/ Uniform(t) \/ Leave(t)
    \/ Remove

Spec == Init /\ [][Next]_vars

SpecConc == InitConc /\ [][Next]_vars

(***************************************************************************)
(* What the claims speak of, stated on the bytes of the file.              *)
(***************************************************************************)
Done(t) == pc[t] = "done"

\* the call of t met the path as a file that stayed in place
Stayed(t) == atCall[t][1] /\ ~removed

\* the first byte test of section 4.1 step f
PrefilterBytes == Digits \cup {"-", "+", "."}

\* the starts of the tokens of file[lo..hi): maximal runs of bytes that are not separators
TokenStarts(m, lo, hi) ==
    {i \in lo..(hi - 1) :
        /\ ~IsSep(m, At(file, i))
        /\ i = lo \/ IsSep(m, At(file, i - 1))}

TokenAt(m, i, hi) ==
    LET S == {k \in i..(hi - 1) : IsSep(m, At(file, k))}
    IN  Slice(file, i, IF S = {} THEN hi ELSE MinOf(S))

Accepted(m, i, hi) ==
    /\ At(file, i) \in PrefilterBytes
    /\ ParseF64(TokenAt(m, i, hi)) # NoParse

AcceptedStarts(m, lo, hi) == {i \in TokenStarts(m, lo, hi) : Accepted(m, i, hi)}

\* the values of the accepted tokens that start in S, in file order
RECURSIVE ValuesOf(_, _, _)
ValuesOf(m, S, hi) ==
    IF S = {} THEN <<>>
    ELSE <<ParseF64(TokenAt(m, MinOf(S), hi))>> \o ValuesOf(m, S \ {MinOf(S)}, hi)

\* the sum of the values at positions r, r + 3, r + 6, ... (from 0) of vs, or of all of them
RECURSIVE SumEvery(_, _, _)
SumEvery(vs, r, step) ==
    IF Len(vs) <= r THEN Zero
    ELSE FAdd(vs[r + 1], SumEvery(SubSeq(vs, step + 1, Len(vs)), r, step))

(***************************************************************************)
(* C1, as stated: for every path that does not exist and for every         *)
(* existing file of zero length, the call returns absent (None, or         *)
(* (0,0,0)) before any anchor search, and raises no error.                 *)
(***************************************************************************)
C1_AbsentOnMissingOrEmpty ==
    \A t \in Threads :
        Done(t) /\ (~atCall[t][1] \/ Len(file) = 0)
            => result[t] = Absent(mode[t]) /\ ~searched[t]

(***************************************************************************)
(* C1, amended: the same for every path that does not exist and for every  *)
(* zero-length file that stays in place and whose open and metadata calls  *)
(* succeed; when File::open or metadata fails on a zero-length file, or    *)
(* the file is gone by the time it is opened, no anchor search is made     *)
(* either, but the call may raise the I/O error.                           *)
(***************************************************************************)
C1_AbsentOnMissingOrReadableEmpty ==
    \A t \in Threads :
        Done(t) /\ (~atCall[t][1] \/ Len(file) = 0)
            => /\ ~searched[t]
               /\ result[t] \in {Absent(mode[t]), Err}
               /\ (~atCall[t][1] \/ (~removed /\ fault \notin {"open", "size"}))
                      => result[t] = Absent(mode[t])

C1_Witness ==
    \E t \in Threads :
        /\ Done(t) /\ Stayed(t) /\ Len(file) = 0 /\ fault = "map"
        /\ mode[t] = "vector" /\ result[t] = Triple(Zero, Zero, Zero)

(***************************************************************************)
(* C2: in scalar nonuniform mode the data region is the bytes strictly     *)
(* between the first ( after the nonuniform match and the last ) before    *)
(* the boundary; the result is sum / count over exactly the tokens,        *)
(* separated by space, newline, tab or carriage return, whose first byte   *)
(* passes the prefilter and which parse; a value is returned only when     *)
(* count > 0, and otherwise the result is None.                            *)
(***************************************************************************)
C2_ScalarMean ==
    \A t \in Threads :
        Done(t) /\ mode[t] = "scalar" /\ loc[t].end # -1
            => LET lo == loc[t].start + 1
                   hi == loc[t].end
                   A  == AcceptedStarts("scalar", lo, hi)
                   vs == ValuesOf("scalar", A, hi)
               IN  /\ At(file, loc[t].start) = "("
                   /\ \A j \in loc[t].offset..(loc[t].start - 1) : At(file, j) # "("
                   /\ At(file, hi) = ")"
                   /\ \A j \in (hi + 1)..(loc[t].end_limit - 1) : At(file, j) # ")"
                   /\ loc[t].count = Cardinality(A)
                   /\ loc[t].sum = SumEvery(vs, 0, 1)
                   /\ result[t] = IF Cardinality(A) > 0
                                  THEN Some(FDivInt(SumEvery(vs, 0, 1), Cardinality(A)))
                                  ELSE None

\* a mean over the valid tokens of a region that also holds a token that passes
\* the prefilter and does not parse, and one that does not pass it
C2_Witness ==
    \E t \in Threads :
        /\ Done(t) /\ mode[t] = "scalar" /\ loc[t].end # -1
        /\ result[t].tag = "Some"
        /\ LET lo == loc[t].start + 1
               hi == loc[t].end
           IN  /\ \E i \in TokenStarts("scalar", lo, hi) :
                      At(file, i) \in PrefilterBytes /\ ~Accepted("scalar", i, hi)
               /\ \E i \in TokenStarts("scalar", lo, hi) : At(file, i) \notin PrefilterBytes
               /\ Cardinality(AcceptedStarts("scalar", lo, hi)) >= 2

\* the end of the first occurrence of internalField in the file, or -1
FirstAnchorEnd ==
    LET S == {i \in 0..(Len(file) - Len(KwInternalField)) :
                 MatchesAt(file, KwInternalField, i)}
    IN  IF S = {} THEN -1 ELSE MinOf(S) + Len(KwInternalField)

\* the end of the window of at most 500 bytes after the first internalField
FirstWindowEnd == Min2(FirstAnchorEnd + Window, Len(file))

\* the call of t read the file: a non-empty file in place, no system call failing
ReadFile(t) == Stayed(t) /\ fault = "none" /\ Len(file) > 0

(***************************************************************************)
(* C3, as stated: when the first internalField is followed by whitespace,  *)
(* uniform, whitespace, one numeric token v and `;`, all inside the        *)
(* window, parse_scalar_field returns exactly v, whatever follows the `;`. *)
(***************************************************************************)
C3_UniformScalarExact ==
    \A t \in Threads :
        Done(t) /\ mode[t] = "scalar" /\ ReadFile(t) /\ FirstAnchorEnd # -1
            => LET a  == FirstAnchorEnd
                   w  == FirstWindowEnd
                   q1 == SpaceEnd(file, a, w)
                   q2 == SpaceEnd(file, q1 + Len(KwUniform), w)
                   r  == TokenEnd(file, q2, w)
               IN  ( /\ q1 > a /\ q1 + Len(KwUniform) <= w
                     /\ MatchesAt(file, KwUniform, q1)
                     /\ q2 > q1 + Len(KwUniform)
                     /\ r > q2 /\ r < w /\ At(file, r) = ";"
                     /\ ParseF64(Slice(file, q2, r)) # NoParse )
                   => result[t] = Some(ParseF64(Slice(file, q2, r)))

(***************************************************************************)
(* C4: in vector nonuniform mode, after any prefix of the chunks, with k   *)
(* the number of tokens accepted so far: val_idx = k mod 3, count =        *)
(* floor(k / 3), and sum_x, sum_y, sum_z are the sums of the accepted      *)
(* tokens at positions 0, 1, 2 modulo 3 (so the x and y of an incomplete   *)
(* trailing triple are in the sums and not in the count); the result is    *)
(* the three sums divided by count when count > 0, and (0,0,0) otherwise.  *)
(***************************************************************************)
C4_VectorCycle ==
    \A t \in Threads :
        mode[t] = "vector" /\ loc[t].pos # -1
            => LET hi == loc[t].end
                   P  == {i \in AcceptedStarts("vector", loc[t].start + 1, hi) :
                             i < loc[t].pos}
                   vs == ValuesOf("vector", P, hi)
                   k  == Len(vs)
                   n  == k \div 3
               IN  /\ loc[t].val_idx = k % 3
                   /\ loc[t].count = n
                   /\ loc[t].sum_x = SumEvery(vs, 0, 3)
                   /\ loc[t].sum_y = SumEvery(vs, 1, 3)
                   /\ loc[t].sum_z = SumEvery(vs, 2, 3)
                   /\ Done(t) =>
                         result[t] = IF n > 0
                                     THEN Triple(FDivInt(SumEvery(vs, 0, 3), n),
                                                 FDivInt(SumEvery(vs, 1, 3), n),
                                                 FDivInt(SumEvery(vs, 2, 3), n))
                                     ELSE Triple(Zero, Zero, Zero)

\* two complete triples, then an incomplete one whose x and y are in the sums
C4_Witness ==
    \E t \in Threads :
        /\ Done(t) /\ mode[t] = "vector" /\ loc[t].pos # -1
        /\ loc[t].count = 2 /\ loc[t].val_idx = 2
        /\ loc[t].sum_x = <<5, 1>> /\ loc[t].sum_y = <<3, 1>> /\ loc[t].sum_z = Zero
        /\ result[t] = Triple(<<5, 2>>, <<3, 2>>, Zero)

(***************************************************************************)
(* C5, as stated: in nonuniform mode no byte at or after the first         *)
(* boundaryField that follows the anchor is in the data region: the        *)
(* closing ) is always located before that boundaryField.                  *)
(***************************************************************************)
C5_RegionBeforeBoundary ==
    \A t \in Threads :
        loc[t].end # -1
            => LET B == {i \in loc[t].start_search..(Len(file) - Len(KwBoundaryField)) :
                            MatchesAt(file, KwBoundaryField, i)}
               IN  B # {} => loc[t].end <= MinOf(B)

\* some occurrence of nonuniform lies wholly in file[a..w)
NonuniformWithin(a, w) ==
    \E i \in a..(w - Len(KwNonuniform)) : MatchesAt(file, KwNonuniform, i)

\* the number of maximal runs of non-space bytes in s
SpaceRuns(s) ==
    Cardinality({k \in 1..Len(s) : ~IsSpace(s[k]) /\ (k = 1 \/ IsSpace(s[k - 1]))})

\* file[q..e) has one of the three shapes of the uniform pattern's group
ValueShape(q, e) ==
    LET v == Slice(file, q, e)
    IN  \/ \A k \in 1..Len(v) : ~IsSpace(v[k]) /\ v[k] # ";"
        \/ /\ \A k \in 1..Len(v) : v[k] # ";"
           /\ ~IsSpace(v[1]) /\ ~IsSpace(v[Len(v)])
           /\ SpaceRuns(v) = 3
        \/ /\ Len(v) >= 3 /\ v[1] = "(" /\ v[Len(v)] = ")"
           /\ \A k \in 2..(Len(v) - 1) : v[k] # ")"

\* some match of the uniform pattern lies wholly in file[a..w)
UniformWithin(a, w) ==
    \E p \in a..(w - Len(KwUniform)) :
        /\ MatchesAt(file, KwUniform, p)
        /\ \E q \in (p + Len(KwUniform) + 1)..(w - 1) :
              /\ \A k \in (p + Len(KwUniform))..(q - 1) : IsSpace(At(file, k))
              /\ \E e \in (q + 1)..(w - 1) : At(file, e) = ";" /\ ValueShape(q, e)

(***************************************************************************)
(* C6: for a non-empty readable file that holds no internalField, or       *)
(* whose window of at most 500 bytes after the first internalField holds   *)
(* neither a complete nonuniform nor a complete match of the uniform       *)
(* pattern, the scalar result is None and the vector result (0,0,0), and   *)
(* no error: only the first internalField counts, and a keyword that lies  *)
(* even partly beyond the window is not seen.                              *)
(***************************************************************************)
C6_AbsentWithoutKeyword ==
    \A t \in Threads :
        ( /\ Done(t) /\ ReadFile(t)
          /\ \/ FirstAnchorEnd = -1
             \/ /\ ~NonuniformWithin(FirstAnchorEnd, FirstWindowEnd)
                /\ ~UniformWithin(FirstAnchorEnd, FirstWindowEnd) )
            => result[t] = Absent(mode[t])

\* a nonuniform that starts inside the window and ends beyond it, and a list after it
C6_Witness ==
    \E t \in Threads :
        /\ Done(t) /\ ReadFile(t) /\ mode[t] = "scalar" /\ result[t] = None
        /\ FirstAnchorEnd # -1
        /\ ~NonuniformWithin(FirstAnchorEnd, FirstWindowEnd)
        /\ \E i \in FirstAnchorEnd..(FirstWindowEnd - 1) :
              /\ i + Len(KwNonuniform) <= Len(file)
              /\ MatchesAt(file, KwNonuniform, i)
              /\ AcceptedStarts("scalar", i, Len(file)) # {}

\* the call of t took the uniform branch
TookUniform(t) == Done(t) /\ loc[t].start_search # -1 /\ loc[t].offset = -1

\* the parts of the capture: its runs of non-space bytes once ( and ) are dropped
RECURSIVE PartsOf(_)
PartsOf(s) ==
    LET S == {k \in 1..Len(s) : ~IsSpace(s[k])}
        a == MinOf(S)
        T == {k \in a..Len(s) : IsSpace(s[k])}
        b == IF T = {} THEN Len(s) + 1 ELSE MinOf(T)
    IN  IF S = {} THEN <<>>
        ELSE <<SubSeq(s, a, b - 1)>> \o PartsOf(SubSeq(s, b, Len(s)))

(***************************************************************************)
(* C7: in vector uniform mode the captured value is stripped of ( and )    *)
(* and split on whitespace; with exactly 3 parts the result is the triple  *)
(* of their parsed values, a part that does not parse giving 0.0 for its   *)
(* component only; with any other number of parts the result is (0,0,0).   *)
(***************************************************************************)
C7_VectorUniform ==
    \A t \in Threads :
        TookUniform(t) /\ mode[t] = "vector"
            => LET cap   == ReGroup1(PatUniform, file, FirstAnchorEnd, FirstWindowEnd)
                   value == SelectSeq(Slice(file, cap[1], cap[2]),
                                      LAMBDA b : b \notin {"(", ")"})
                   parts == PartsOf(value)
                   comp(k) == IF ParseF64(parts[k]) = NoParse THEN Zero
                              ELSE ParseF64(parts[k])
               IN  /\ cap # NoMatch <=> UniformWithin(FirstAnchorEnd, FirstWindowEnd)
                   /\ result[t] = IF cap # NoMatch /\ Len(parts) = 3
                                  THEN Triple(comp(1), comp(2), comp(3))
                                  ELSE Triple(Zero, Zero, Zero)

\* uniform (1 x 1); gives (1, 0, 1)
C7_Witness ==
    \E t \in Threads :
        /\ TookUniform(t) /\ mode[t] = "vector"
        /\ result[t] = Triple(<<1, 1>>, Zero, <<1, 1>>)
        /\ \E i \in 0..(Len(file) - 1) : At(file, i) = "x"

(***************************************************************************)
(* C9, as stated: an I/O failure while checking, opening, sizing or        *)
(* mapping the file is always returned to the caller as an error, never as *)
(* absent / (0,0,0).                                                       *)
(***************************************************************************)
C9_FailurePropagated ==
    \A t \in Threads :
        ( /\ Done(t) /\ Stayed(t)
          /\ \/ fault \in {"stat", "open", "size"}
             \/ fault = "map" /\ Len(file) > 0 )
            => result[t] = Err

(***************************************************************************)
(* C10: every index and range of the scan is in bounds: anchor_end <=      *)
(* min(anchor_end + 500, len) <= len; the scan for ( starts at             *)
(* anchor_end + nonuniform_end <= len; open < limit <= len; and            *)
(* open < close < limit, so that [open + 1, close) is a range of the       *)
(* buffer, and so is every chunk of it.                                    *)
(***************************************************************************)
C10_InBounds ==
    \A t \in Threads :
        LET l == loc[t]
            n == Len(file)
        IN  /\ l.start_search # -1 =>
                  /\ 0 <= l.start_search /\ l.start_search <= l.win_end
                  /\ l.win_end = Min2(l.start_search + 500, n) /\ l.win_end <= n
            /\ l.offset # -1 =>
                  /\ l.start_search < l.offset /\ l.offset <= l.win_end
            /\ l.start # -1 =>
                  /\ l.offset <= l.start /\ l.start < l.end_limit /\ l.end_limit <= n
            /\ l.end # -1 =>
                  /\ l.start < l.end /\ l.end < l.end_limit
                  /\ l.start + 1 <= l.pos /\ l.pos <= l.end + 1
                  /\ l.pos <= l.end =>
                        /\ l.pos <= ChunkEnd(mode[t], file, l.pos, l.end)
                        /\ ChunkEnd(mode[t], file, l.pos, l.end) <= l.end

\* a data region closed just before a boundaryField that is not the end of the buffer
C10_Witness ==
    \E t \in Threads :
        /\ loc[t].end # -1
        /\ loc[t].end_limit = loc[t].end + 1
        /\ loc[t].end_limit < Len(file)
        /\ loc[t].pos = loc[t].end + 1

\* the pattern each static is compiled from
PatternOf(c) ==
    CASE c = "RE_INTERNAL_FIELD" -> PatInternalField
      [] c = "RE_NONUNIFORM" -> PatNonuniform
      [] c = "RE_UNIFORM" -> PatUniform

(***************************************************************************)
(* C8: in every interleaving of repeated and concurrent calls on the same  *)
(* unmodified file, the calls that race on the first initialisation of     *)
(* the pattern statics included, every call returns what a single call     *)
(* made alone returns; the only state one call leaves to another is a      *)
(* static, which holds nothing or its own pattern.                         *)
(***************************************************************************)
C8_SameAsAlone ==
    /\ \A c \in Cells : once[c] \in {Uninit, PatternOf(c)}
    /\ \A t \in Threads :
          Done(t) /\ ~removed => result[t] = SingleCall(mode[t], present, fault, file)

\* both threads at the return of their last call, one in each function, with values
C8_Witness ==
    \E t \in Threads, u \in Threads :
        /\ Done(t) /\ Done(u) /\ budget[t] = 0 /\ budget[u] = 0 /\ ~removed
        /\ mode[t] = "scalar" /\ result[t].tag = "Some"
        /\ mode[u] = "vector" /\ result[u] \notin {Err, Triple(Zero, Zero, Zero)}

=============================================================================
